---- MODULE Spec2Model ----
(***************************************************************************)
(* Model of app.py: a FastAPI process that loads the NIFTY option universe *)
(* at startup, ingests KiteTicker tick batches on the ticker thread into   *)
(* latest_ticks / volume_memory, and runs ranking_engine on the asyncio    *)
(* loop, which scores every tracked instrument and inserts the rows into   *)
(* the two Supabase tables.                                                *)
(*                                                                         *)
(* The ticker callbacks run on their own thread; ranking_engine is         *)
(* therefore modelled step by step (one action per loop header, iterator   *)
(* step, insert), so that on_ticks can run between any two of its steps.   *)
(***************************************************************************)
EXTENDS Integers, Sequences, FiniteSets, TLC

\* ------------------------------------------------------------------------
\* Program constants
\* ------------------------------------------------------------------------
STRIKE_RANGE == 800
MAX_CONTRACTS == 80
UPDATE_INTERVAL == 3
\* deque(maxlen=200); scaled down so that a full window is reachable.
maxlen == 2
\* The five window lengths passed to calculate_volume, in call order.
Windows == <<10, 30, 60, 180, 300>>

\* ------------------------------------------------------------------------
\* Bounds of the model
\* ------------------------------------------------------------------------
MaxTime == 11       \* the clock stops advancing here
MaxTicks == 3       \* ticks delivered in one run, over all batches
MaxCycles == 2      \* ranking cycles in one run
MaxConnects == 2    \* connections established in one run
MaxCloses == 1      \* connections lost in one run
MaxSamples == 3     \* samples of a window drawn for a direct calculate_volume call
MaxStoreTicks == 3  \* ticks of one token delivered to the store on its own
MaxStoreTime == 602 \* the clock of the store on its own stops advancing here
MaxRowTicks == 3    \* samples of the window of a row on its own, drawn and delivered
MaxFairTicks == 2   \* ticks delivered in one run of the fairly scheduled loop
MaxRowTime == 45    \* the clock of a row on its own stops advancing here

\* Amounts by which the clock advances between two readings: longer than
\* the shortest window, shorter than the next one.
ClockSteps == {11}

\* ------------------------------------------------------------------------
\* Environment data
\* ------------------------------------------------------------------------
\* kite.instruments("NFO"): the exchange's instrument dump, in catalog order.
Instruments == <<
    [instrument_token |-> 1, name |-> "NIFTY", segment |-> "NFO-OPT", expiry |-> 1, strike |-> 24000],
    [instrument_token |-> 2, name |-> "NIFTY", segment |-> "NFO-OPT", expiry |-> 1, strike |-> 24500],
    [instrument_token |-> 3, name |-> "NIFTY", segment |-> "NFO-OPT", expiry |-> 2, strike |-> 24500],
    [instrument_token |-> 4, name |-> "BANKNIFTY", segment |-> "NFO-OPT", expiry |-> 1, strike |-> 24500],
    [instrument_token |-> 5, name |-> "NIFTY", segment |-> "NFO-FUT", expiry |-> 1, strike |-> 0] >>

Tokens == {Instruments[i].instrument_token : i \in 1..Len(Instruments)}

\* kite.ltp("NSE:NIFTY 50") last_price values the startup may see.
LtpValues == {24400, 24900, 25400}

\* Tick payloads the feed may deliver (the token is added on delivery).
\* A payload may lack optional fields.
TickPayloads == {
    [volume |-> 2, oi |-> 2, change |-> -1],
    [oi |-> 1] }

NoTick == [none |-> TRUE]

\* ------------------------------------------------------------------------
\* State
\* ------------------------------------------------------------------------
VARIABLES
    clock,            \* datetime.now(), in seconds
    gate,             \* what the last market_open() call returned
    app,              \* "init" | "running" | "failed": the startup hook
    loads,            \* number of load_instruments() calls
    tasks,            \* number of ranking_engine tasks created
    instrument_df,    \* [loaded, rows]; loaded = FALSE is None
    tracked_tokens,   \* list of instrument tokens
    latest_ticks,     \* token -> tick or NoTick
    volume_memory,    \* token -> deque of <<timestamp, volume>>
    dq_state,         \* token -> the deque's mutation counter
    wsStarted,        \* the kws.connect thread was started
    conn,             \* "none" | "connecting" | "open" | "closed"
    subscribed,       \* tokens subscribed on the current connection
    mode_full,        \* tokens in MODE_FULL on the current connection
    connects,         \* number of on_connect calls
    closes,           \* number of on_close calls
    delivered,        \* number of ticks delivered to on_ticks
    pc,               \* position of ranking_engine
    cycles,           \* number of cycles started
    now_time, idx, tick, vols,          \* locals of ranking_engine
    cvNow, it,                          \* locals of calculate_volume
    volume_rows, snapshot_rows,         \* locals of ranking_engine
    volume_history, option_snapshots,   \* the two Supabase tables: the rows the
                                        \* current cycle inserted (the program
                                        \* never reads the tables)
    sleepUntil,       \* the clock value at which asyncio.sleep returns
    engineError,      \* exception caught in the current cycle, or "none"
    query             \* last direct calculate_volume call: [seconds, result]

envVars    == <<clock, gate>>
startVars  == <<app, loads, tasks, instrument_df, tracked_tokens>>
storeVars  == <<latest_ticks, volume_memory, dq_state, delivered>>
feedVars   == <<wsStarted, conn, subscribed, mode_full, connects, closes>>
loopVars   == <<now_time, idx, tick, vols, volume_rows, snapshot_rows>>
cvVars     == <<cvNow, it>>
sinkVars   == <<volume_history, option_snapshots>>
engineVars == <<pc, cycles, sleepUntil, engineError>>

vars == <<envVars, startVars, storeVars, feedVars, loopVars, cvVars, sinkVars,
          engineVars, query>>

\* ------------------------------------------------------------------------
\* Helpers
\* ------------------------------------------------------------------------
Range(s) == {s[i] : i \in 1..Len(s)}

RECURSIVE SelectRows(_, _)
SelectRows(s, keep) ==
    IF s = <<>> THEN <<>>
    ELSE IF Head(s) \in keep THEN <<Head(s)>> \o SelectRows(Tail(s), keep)
    ELSE SelectRows(Tail(s), keep)

\* DataFrame.head(n)
HeadN(s, n) == IF Len(s) <= n THEN s ELSE SubSeq(s, 1, n)

\* tick.get(field, 0)
Get(t, field) == IF field \in DOMAIN t THEN t[field] ELSE 0

Abs(n) == IF n < 0 THEN -n ELSE n

\* An append to a deque without a maxlen.
DequeAppend_unbounded(dq, x) == Append(dq, x)

\* deque.append on a deque(maxlen=maxlen): a full deque drops its oldest item.
DequeAppend(dq, x) ==
    IF Len(dq) >= maxlen THEN Append(Tail(dq), x) ELSE Append(dq, x)

\* ------------------------------------------------------------------------
\* load_instruments
\* ------------------------------------------------------------------------
\* The rows of the nearest expiry within STRIKE_RANGE of price, at most
\* MAX_CONTRACTS of them, in catalog order.  Defined only when some NIFTY
\* option exists (sorted(...)[0] raises IndexError otherwise).
load_instruments(price) ==
    LET opts == {r \in Range(Instruments) : r.name = "NIFTY" /\ r.segment = "NFO-OPT"}
        expiry == CHOOSE e \in {r.expiry : r \in opts} :
                      \A r \in opts : e <= r.expiry
        near == {r \in opts : /\ r.expiry = expiry
                              /\ r.strike > price - STRIKE_RANGE
                              /\ r.strike < price + STRIKE_RANGE}
    IN  HeadN(SelectRows(Instruments, near), MAX_CONTRACTS)

TokensOf(rows) == [i \in 1..Len(rows) |-> rows[i].instrument_token]

\* ------------------------------------------------------------------------
\* Initial state: module-level initialisation of app.py
\* ------------------------------------------------------------------------
NoIter == [state |-> 0, index |-> 0, counter |-> 0]
NoQuery == [seconds |-> 0, result |-> 0]

Init ==
    /\ clock = 0
    /\ gate = FALSE
    /\ app = "init"
    /\ loads = 0
    /\ tasks = 0
    /\ instrument_df = [loaded |-> FALSE, rows |-> <<>>]
    /\ tracked_tokens = <<>>
    /\ latest_ticks = [t \in Tokens |-> NoTick]
    /\ volume_memory = [t \in Tokens |-> <<>>]
    /\ dq_state = [t \in Tokens |-> 0]
    /\ wsStarted = FALSE
    /\ conn = "none"
    /\ subscribed = {}
    /\ mode_full = {}
    /\ connects = 0
    /\ closes = 0
    /\ delivered = 0
    /\ pc = "off"
    /\ cycles = 0
    /\ now_time = 0
    /\ idx = 0
    /\ tick = NoTick
    /\ vols = <<>>
    /\ cvNow = 0
    /\ it = NoIter
    /\ volume_rows = <<>>
    /\ snapshot_rows = <<>>
    /\ volume_history = <<>>
    /\ option_snapshots = <<>>
    /\ sleepUntil = 0
    /\ engineError = "none"
    /\ query = NoQuery

\* ------------------------------------------------------------------------
\* Environment: the wall clock.  market_open() is a function of the wall
\* clock's time of day and weekday; each call is an input of the caller.
\* ------------------------------------------------------------------------
Advance ==
    /\ \E d \in ClockSteps :
          /\ clock + d <= MaxTime
          /\ clock' = clock + d
    /\ UNCHANGED <<gate, startVars, storeVars, feedVars, loopVars, cvVars,
                   sinkVars, engineVars, query>>

\* ------------------------------------------------------------------------
\* startup
\* ------------------------------------------------------------------------
\* load_instruments() succeeds; the ticker thread is started only when
\* market_open() holds; the ranking task is created in either case.  The
\* startup hook runs once per process.
Startup ==
    /\ app = "init"
    /\ \E price \in LtpValues :
          LET df == load_instruments(price) IN
          /\ instrument_df' = [loaded |-> TRUE, rows |-> df]
          /\ tracked_tokens' = TokensOf(df)
    /\ loads' = loads + 1
    /\ \E open \in BOOLEAN :
          /\ gate' = open
          /\ IF open
                THEN wsStarted' = TRUE /\ conn' = "connecting"
                ELSE UNCHANGED <<wsStarted, conn>>
    /\ tasks' = tasks + 1
    /\ pc' = "top"
    /\ app' = "running"
    /\ UNCHANGED <<clock, storeVars, subscribed, mode_full, connects, closes,
                   loopVars, cvVars, sinkVars, cycles, sleepUntil, engineError, query>>

\* kite.instruments / kite.ltp raises: the startup hook raises before
\* anything is started.
StartupFail ==
    /\ app = "init"
    /\ app' = "failed"
    /\ loads' = loads + 1
    /\ UNCHANGED <<envVars, tasks, instrument_df, tracked_tokens, storeVars,
                   feedVars, loopVars, cvVars, sinkVars, engineVars, query>>

\* ------------------------------------------------------------------------
\* Websocket callbacks
\* ------------------------------------------------------------------------
\* on_connect resolving the universe again on every connection.
on_connect_reload ==
    /\ conn = "connecting"
    /\ connects < MaxConnects
    /\ conn' = "open"
    /\ \E price \in LtpValues :
          LET df == load_instruments(price) IN
          /\ instrument_df' = [loaded |-> TRUE, rows |-> df]
          /\ tracked_tokens' = TokensOf(df)
          /\ subscribed' = Range(TokensOf(df))
          /\ mode_full' = Range(TokensOf(df))
    /\ loads' = loads + 1
    /\ connects' = connects + 1
    /\ UNCHANGED <<envVars, app, tasks, storeVars, wsStarted, closes, loopVars,
                   cvVars, sinkVars, engineVars, query>>

\* on_connect: called by the ticker each time a connection is established.
on_connect ==
    /\ conn = "connecting"
    /\ connects < MaxConnects
    /\ conn' = "open"
    /\ subscribed' = Range(tracked_tokens)
    /\ mode_full' = Range(tracked_tokens)
    /\ connects' = connects + 1
    /\ UNCHANGED <<envVars, startVars, storeVars, wsStarted, closes, loopVars,
                   cvVars, sinkVars, engineVars, query>>

\* on_close: called by the ticker when the socket closes; it only logs.
\* The subscriptions belong to the closed connection and go with it.
on_close ==
    /\ conn = "open"
    /\ closes < MaxCloses
    /\ closes' = closes + 1
    /\ conn' = "closed"
    /\ subscribed' = {}
    /\ mode_full' = {}
    /\ UNCHANGED <<envVars, startVars, storeVars, wsStarted, connects, loopVars,
                   cvVars, sinkVars, engineVars, query>>

\* KiteTicker was constructed with its defaults, under which the library
\* may open a new connection after a close.  Nothing in app.py schedules it.
TickerRetry ==
    /\ conn = "closed"
    /\ conn' = "connecting"
    /\ UNCHANGED <<envVars, startVars, storeVars, wsStarted, subscribed, mode_full,
                   connects, closes, loopVars, cvVars, sinkVars, engineVars, query>>

\* An iteration that rejects a tick without a volume field.
on_tick_strict(s, tk, now) ==
    LET token == tk.instrument_token IN
    IF "volume" \notin DOMAIN tk THEN s
    ELSE [lt |-> [s.lt EXCEPT ![token] = tk],
          vm |-> [s.vm EXCEPT ![token] = DequeAppend(@, <<now, tk.volume>>)],
          st |-> [s.st EXCEPT ![token] = @ + 1]]

\* One iteration of the loop in on_ticks, on the stores <<lt, vm, st>>.
on_tick(s, tk, now) ==
    LET token == tk.instrument_token IN
    [lt |-> [s.lt EXCEPT ![token] = tk],
     vm |-> [s.vm EXCEPT ![token] = DequeAppend(@, <<now, Get(tk, "volume")>>)],
     st |-> [s.st EXCEPT ![token] = @ + 1]]

RECURSIVE on_ticks_loop(_, _, _)
on_ticks_loop(s, ticks, now) ==
    IF ticks = <<>> THEN s
    ELSE on_ticks_loop(on_tick(s, Head(ticks), now), Tail(ticks), now)

WithToken(p, token) == [f \in DOMAIN p \cup {"instrument_token"} |->
                           IF f = "instrument_token" THEN token ELSE p[f]]

TickSet == {WithToken(p, t) : p \in TickPayloads, t \in subscribed}

BatchSet == UNION {[1..n -> TickSet] : n \in 1..(MaxTicks - delivered)}

\* on_ticks: called by the ticker with a batch of ticks of subscribed
\* tokens; the whole batch is stamped with one reading of the clock.
\* The callback is taken as one step of the ticker thread: every dict store
\* and deque.append in it is atomic under the interpreter lock, and the
\* steps of ranking_engine are the points where it can run in between.
on_ticks(ticks) ==
    /\ conn = "open"
    /\ LET s == on_ticks_loop([lt |-> latest_ticks, vm |-> volume_memory,
                               st |-> dq_state], ticks, clock) IN
          /\ latest_ticks' = s.lt
          /\ volume_memory' = s.vm
          /\ dq_state' = s.st
    /\ delivered' = delivered + Len(ticks)
    /\ UNCHANGED <<envVars, startVars, feedVars, loopVars, cvVars, sinkVars,
                   engineVars, query>>

\* ------------------------------------------------------------------------
\* calculate_volume
\* ------------------------------------------------------------------------
\* The sum with the comparison turned round: the samples stamped at or
\* before now - seconds.
RECURSIVE calculate_volume_inverted(_, _, _)
calculate_volume_inverted(dq, now, seconds) ==
    IF dq = <<>> THEN 0
    ELSE (IF Head(dq)[1] <= now - seconds THEN Head(dq)[2] ELSE 0)
         + calculate_volume_inverted(Tail(dq), now, seconds)

\* The function run without interference: the sum of the volumes of the
\* samples stamped at or after now - seconds.
RECURSIVE calculate_volume(_, _, _)
calculate_volume(dq, now, seconds) ==
    IF dq = <<>> THEN 0
    ELSE (IF Head(dq)[1] >= now - seconds THEN Head(dq)[2] ELSE 0)
         + calculate_volume(Tail(dq), now, seconds)


\* ------------------------------------------------------------------------
\* ranking_engine
\* ------------------------------------------------------------------------
\* Locals are reset once they are dead, so that states differing only in
\* dead locals coincide; idx keeps the row at which an exception was raised
\* until the next cycle.
CurToken == instrument_df.rows[idx].instrument_token

\* A handler that lets the exception leave the while loop.
Raise_exit(e) ==
    /\ engineError' = e
    /\ pc' = "done"
    /\ UNCHANGED <<sleepUntil, idx>>
    /\ tick' = NoTick
    /\ vols' = <<>>
    /\ cvNow' = 0
    /\ it' = NoIter

\* except Exception: log, then fall through to asyncio.sleep(UPDATE_INTERVAL).
Raise(e) ==
    /\ engineError' = e
    /\ pc' = "sleep"
    /\ sleepUntil' = clock + UPDATE_INTERVAL
    /\ UNCHANGED idx
    /\ tick' = NoTick
    /\ vols' = <<>>
    /\ cvNow' = 0
    /\ it' = NoIter

\* The end of the try block, then asyncio.sleep(UPDATE_INTERVAL).
Sleep ==
    /\ pc' = "sleep"
    /\ sleepUntil' = clock + UPDATE_INTERVAL

\* Top of the while loop: the market_open() / instrument_df test.
EngineTop ==
    /\ pc = "top"
    /\ cycles < MaxCycles
    /\ cycles' = cycles + 1
    /\ \E open \in BOOLEAN :
          /\ gate' = open
          /\ IF open /\ instrument_df.loaded
                THEN /\ now_time' = clock
                     /\ idx' = 1
                     /\ pc' = "row"
                     /\ UNCHANGED sleepUntil
                ELSE /\ Sleep
                     /\ UNCHANGED <<now_time, idx>>
    /\ UNCHANGED <<clock, startVars, storeVars, feedVars, tick, vols, volume_rows,
                   snapshot_rows, cvVars, sinkVars, engineError, query>>

\* The for loop without the "if not tick: continue" test: reading a field
\* of the missing tick raises.
RowNext_no_skip ==
    /\ pc = "row"
    /\ IF idx > Len(instrument_df.rows)
          THEN /\ pc' = "ins_vol"
               /\ idx' = 0
               /\ UNCHANGED <<tick, vols, volume_rows, cvVars, sleepUntil,
                              engineError>>
          ELSE LET tk == latest_ticks[CurToken] IN
               IF tk = NoTick
                  THEN /\ Raise("TypeError")
                       /\ UNCHANGED volume_rows
                  ELSE /\ tick' = tk
                       /\ volume_rows' = Append(volume_rows,
                              [token |-> CurToken,
                               volume |-> Get(tk, "volume"),
                               created_at |-> now_time])
                       /\ vols' = <<>>
                       /\ pc' = "call"
                       /\ UNCHANGED <<idx, cvVars, sleepUntil, engineError>>
    /\ UNCHANGED <<envVars, startVars, storeVars, feedVars, now_time, snapshot_rows,
                   sinkVars, cycles, query>>

\* Header of the for loop over instrument_df, the tick lookup and the
\* volume_rows append.
RowNext ==
    /\ pc = "row"
    /\ IF idx > Len(instrument_df.rows)
          THEN /\ pc' = "ins_vol"
               /\ idx' = 0
               /\ UNCHANGED <<tick, vols, volume_rows>>
          ELSE LET tk == latest_ticks[CurToken] IN
               IF tk = NoTick
                  THEN /\ idx' = idx + 1
                       /\ UNCHANGED <<pc, tick, vols, volume_rows>>
                  ELSE /\ tick' = tk
                       /\ volume_rows' = Append(volume_rows,
                              [token |-> CurToken,
                               volume |-> Get(tk, "volume"),
                               created_at |-> now_time])
                       /\ vols' = <<>>
                       /\ pc' = "call"
                       /\ UNCHANGED idx
    /\ UNCHANGED <<envVars, startVars, storeVars, feedVars, now_time, snapshot_rows,
                   cvVars, sinkVars, cycles, sleepUntil, engineError, query>>

\* Entry of calculate_volume(token, Windows[Len(vols) + 1]): the clock is
\* read and the iterator over the token's deque is created; the iterator
\* remembers the deque's mutation counter.
CVCall ==
    /\ pc = "call"
    /\ cvNow' = clock
    /\ it' = [state |-> dq_state[CurToken], index |-> 1,
              counter |-> Len(volume_memory[CurToken])]
    /\ pc' = "iter"
    /\ UNCHANGED <<envVars, startVars, storeVars, feedVars, loopVars, sinkVars,
                   cycles, sleepUntil, engineError, query>>

\* The composite score, in hundredths:
\* 0.3 vol_10s + 0.25 vol_30s + 0.2 vol_1m + 0.15 oi + 0.1 |change|.
ScoreOf(v, tk) ==
    30 * v[1] + 25 * v[2] + 20 * v[3] + 15 * Get(tk, "oi") + 10 * Abs(Get(tk, "change"))

\* The snapshot row of the current instrument (the fields that depend on
\* the stores; ltp and iv are copied from the tick like oi).
SnapshotRow(v) ==
    [symbol |-> CurToken,
     strike |-> instrument_df.rows[idx].strike,
     volume |-> Get(tick, "volume"),
     oi |-> Get(tick, "oi"),
     vols |-> v,
     score |-> ScoreOf(v, tick),
     volume_power |-> IF v[1] > v[3] THEN "HIGH" ELSE "NORMAL",
     created_at |-> now_time]

\* The loop "for t, v in volume_memory[token]" and the return.  Every
\* next() of the deque iterator first compares the deque's mutation counter
\* with the one the iterator remembers and raises RuntimeError when they
\* differ, the next() that ends the loop included.  An append at any point
\* of the loop therefore ends the call with RuntimeError, and a loop that
\* ends normally has summed the deque as it was at the call: the steps of
\* the loop are taken as one.  After the fifth call the score is computed
\* and the row appended, which touches locals only.
CVIter ==
    /\ pc = "iter"
    /\ LET seconds == Windows[Len(vols) + 1]
           total == calculate_volume(volume_memory[CurToken], cvNow, seconds)
           v == Append(vols, total)
       IN
       IF dq_state[CurToken] # it.state
          THEN /\ Raise("RuntimeError")
               /\ UNCHANGED snapshot_rows
          ELSE /\ cvNow' = 0
               /\ it' = NoIter
               /\ UNCHANGED <<sleepUntil, engineError>>
               /\ IF Len(v) < Len(Windows)
                     THEN /\ vols' = v
                          /\ pc' = "call"
                          /\ UNCHANGED <<idx, tick, snapshot_rows>>
                     ELSE /\ snapshot_rows' = Append(snapshot_rows, SnapshotRow(v))
                          /\ idx' = idx + 1
                          /\ tick' = NoTick
                          /\ vols' = <<>>
                          /\ pc' = "row"
    /\ UNCHANGED <<envVars, startVars, storeVars, feedVars, now_time, volume_rows,
                   sinkVars, cycles, query>>

\* supabase.table("volume_history").insert(volume_rows).execute(): the
\* call returns or raises.
InsertVolume ==
    /\ pc = "ins_vol"
    /\ IF volume_rows = <<>>
          THEN /\ pc' = "ins_snap"
               /\ UNCHANGED <<volume_history, sleepUntil, engineError, idx, tick,
                              vols, cvVars>>
          ELSE \/ /\ volume_history' = volume_rows
                  /\ pc' = "ins_snap"
                  /\ UNCHANGED <<sleepUntil, engineError, idx, tick, vols, cvVars>>
               \/ /\ Raise("SinkError")
                  /\ UNCHANGED volume_history
    /\ UNCHANGED <<envVars, startVars, storeVars, feedVars, now_time, volume_rows,
                   snapshot_rows, option_snapshots, cycles, query>>

\* supabase.table("option_snapshots").insert(snapshot_rows).execute().
InsertSnapshot ==
    /\ pc = "ins_snap"
    /\ IF snapshot_rows = <<>>
          THEN /\ Sleep
               /\ UNCHANGED <<option_snapshots, engineError, idx, tick, vols, cvVars>>
          ELSE \/ /\ option_snapshots' = snapshot_rows
                  /\ Sleep
                  /\ UNCHANGED <<engineError, idx, tick, vols, cvVars>>
               \/ /\ Raise("SinkError")
                  /\ UNCHANGED option_snapshots
    /\ UNCHANGED <<envVars, startVars, storeVars, feedVars, now_time, volume_rows,
                   snapshot_rows, volume_history, cycles, query>>

\* A timer that starts the next cycle when the interval is over, whether or
\* not the cycle before it has finished.
Wake_timer ==
    /\ pc \in {"sleep", "row", "call", "iter", "ins_vol", "ins_snap"}
    /\ clock >= sleepUntil
    /\ pc' = "top"
    /\ sleepUntil' = 0
    /\ now_time' = 0
    /\ volume_rows' = <<>>
    /\ snapshot_rows' = <<>>
    /\ volume_history' = <<>>
    /\ option_snapshots' = <<>>
    /\ engineError' = "none"
    /\ idx' = 0
    /\ UNCHANGED <<envVars, startVars, storeVars, feedVars, tick, vols, cvVars,
                   cycles, query>>

\* asyncio.sleep(UPDATE_INTERVAL) returns: back to the top of the loop,
\* where volume_rows and snapshot_rows of the finished cycle are dead.
Wake ==
    /\ pc = "sleep"
    /\ clock >= sleepUntil
    /\ pc' = "top"
    /\ sleepUntil' = 0
    /\ now_time' = 0
    /\ volume_rows' = <<>>
    /\ snapshot_rows' = <<>>
    /\ volume_history' = <<>>
    /\ option_snapshots' = <<>>
    /\ engineError' = "none"
    /\ idx' = 0
    /\ UNCHANGED <<envVars, startVars, storeVars, feedVars, tick, vols, cvVars,
                   cycles, query>>

\* ------------------------------------------------------------------------
\* The program
\* ------------------------------------------------------------------------
Next ==
    \/ Advance
    \/ Startup
    \/ StartupFail
    \/ on_connect
    \/ on_close
    \/ TickerRetry
    \/ \E ticks \in BatchSet : on_ticks(ticks)
    \/ EngineTop
    \/ RowNext
    \/ CVCall
    \/ CVIter
    \/ InsertVolume
    \/ InsertSnapshot
    \/ Wake

Spec == Init /\ [][Next]_vars

\* ------------------------------------------------------------------------
\* calculate_volume on its own: a window and a clock value are drawn, the
\* function is called with each window length.
\* ------------------------------------------------------------------------
CVTimes == {0, 5, 12}
CVVolumes == {100, 150, 300}
CVClocks == {12, 20}
\* The token whose window is queried: the first instrument of the catalog.
CVToken == Instruments[1].instrument_token

\* Windows the program can hold: samples are appended in clock order, so
\* their timestamps never decrease along the deque.
CVDeques ==
    {dq \in UNION {[1..n -> CVTimes \X CVVolumes] : n \in 0..MaxSamples} :
        \A i \in 1..(Len(dq) - 1) : dq[i][1] <= dq[i + 1][1]}

InitCV ==
    /\ clock \in CVClocks
    /\ gate = TRUE
    /\ app = "running"
    /\ loads = 1
    /\ tasks = 1
    /\ instrument_df = [loaded |-> TRUE, rows |-> load_instruments(24400)]
    /\ tracked_tokens = TokensOf(load_instruments(24400))
    /\ \E dq \in CVDeques :
          /\ volume_memory = [t \in Tokens |-> IF t = CVToken THEN dq ELSE <<>>]
          /\ dq_state = [t \in Tokens |-> IF t = CVToken THEN Len(dq) ELSE 0]
          /\ latest_ticks = [t \in Tokens |->
                IF t = CVToken /\ dq # <<>>
                   THEN [instrument_token |-> t, volume |-> dq[Len(dq)][2]]
                   ELSE NoTick]
          /\ delivered = Len(dq)
    /\ wsStarted = TRUE
    /\ conn = "open"
    /\ subscribed = Range(tracked_tokens)
    /\ mode_full = Range(tracked_tokens)
    /\ connects = 1
    /\ closes = 0
    /\ pc = "sleep"
    /\ cycles = 0
    /\ now_time = 0
    /\ idx = 0
    /\ tick = NoTick
    /\ vols = <<>>
    /\ cvNow = 0
    /\ it = NoIter
    /\ volume_rows = <<>>
    /\ snapshot_rows = <<>>
    /\ volume_history = <<>>
    /\ option_snapshots = <<>>
    /\ sleepUntil = clock + UPDATE_INTERVAL
    /\ engineError = "none"
    /\ query = NoQuery

CVQuery(seconds) ==
    /\ query' = [seconds |-> seconds,
                 result |-> calculate_volume(volume_memory[CVToken], clock, seconds)]
    /\ UNCHANGED <<envVars, startVars, storeVars, feedVars, loopVars, cvVars,
                   sinkVars, engineVars>>

NextCV == \E seconds \in Range(Windows) : CVQuery(seconds)

SpecCV == InitCV /\ [][NextCV]_vars

\* The samples of dq stamped at or after now - seconds, in order.
InWindow(dq, now, seconds) == SelectSeq(dq, LAMBDA smp : smp[1] >= now - seconds)

\* ------------------------------------------------------------------------
\* Properties
\* ------------------------------------------------------------------------

\* C1: calculate_volume returns last(W).volume - first(W).volume, W being
\* the samples of the token stamped at or after now - seconds, when W holds
\* at least two samples (150 for (0,100), (5,150), (12,300) at now = 12
\* and a window of 10).
C1_WindowedDelta ==
    query.seconds # 0 =>
        LET W == InWindow(volume_memory[CVToken], clock, query.seconds) IN
        Len(W) >= 2 => query.result = W[Len(W)][2] - W[1][2]

\* C2: calculate_volume returns 0 when fewer than two samples of the token
\* are stamped inside the window.
C2_FewSamplesZero ==
    query.seconds # 0 =>
        LET W == InWindow(volume_memory[CVToken], clock, query.seconds) IN
        Len(W) < 2 => query.result = 0

\* C3: a calculate_volume call during which on_ticks appends to the same
\* deque completes with a value: the read never fails.
C3_ReadNeverFails == engineError # "RuntimeError"

\* C4: the samples of every token are strictly increasing in timestamp.
C4_StrictlyIncreasing ==
    \A t \in Tokens :
        \A i \in 1..(Len(volume_memory[t]) - 1) :
            volume_memory[t][i][1] < volume_memory[t][i + 1][1]

\* Position of a token in instrument_df (catalog order).
CatalogPos(token) ==
    CHOOSE i \in 1..Len(instrument_df.rows) : instrument_df.rows[i].instrument_token = token

\* C5: the rows a cycle inserts into option_snapshots are ordered by score
\* descending, equal scores in catalog order.
C5_SortedByScore ==
    \A i, j \in 1..Len(option_snapshots) :
        i < j =>
            \/ option_snapshots[i].score > option_snapshots[j].score
            \/ /\ option_snapshots[i].score = option_snapshots[j].score
               /\ CatalogPos(option_snapshots[i].symbol) < CatalogPos(option_snapshots[j].symbol)

\* C6: when scoring the instrument at row idx raised, every other tracked
\* instrument with a cached tick is in the rows the cycle inserted into
\* option_snapshots.
C6_OthersStillPublished ==
    (pc = "sleep" /\ engineError = "RuntimeError") =>
        \A i \in 1..Len(instrument_df.rows) :
            LET token == instrument_df.rows[i].instrument_token IN
            (i # idx /\ latest_ticks[token] # NoTick) =>
                \E k \in 1..Len(option_snapshots) : option_snapshots[k].symbol = token

\* C7: when an insert into the sink raised, the snapshot the cycle computed
\* is published all the same.
C7_SinkFailureStillPublishes ==
    (pc = "sleep" /\ engineError = "SinkError") => option_snapshots = snapshot_rows

\* C9: every on_connect subscribes exactly tracked_tokens and sets full
\* mode for exactly tracked_tokens without another load_instruments call,
\* and tracked_tokens does not change once startup has run.
C9_ResubscribesSameUniverse ==
    [][/\ connects' # connects =>
            /\ subscribed' = Range(tracked_tokens)
            /\ mode_full' = Range(tracked_tokens)
            /\ loads' = loads
       /\ app = "running" => tracked_tokens' = tracked_tokens]_vars

\* A second connection of the session is open on a two-instrument universe.
C9_Witness ==
    /\ connects = 2
    /\ conn = "open"
    /\ Cardinality(subscribed) = 2

\* C10: once startup has run the connection has been started, whatever
\* market_open() returned.
C10_ConnectionStartedRegardlessOfGate == app = "running" => wsStarted

\* ------------------------------------------------------------------------
\* The ranking task under the scheduling of the asyncio event loop: the
\* task takes its next step whenever it has one, a sleep that has elapsed
\* ends, and time passes.
\* ------------------------------------------------------------------------
EngineStep == EngineTop \/ RowNext \/ CVCall \/ CVIter \/ InsertVolume \/ InsertSnapshot

\* The feed delivers its ticks one at a time and the connection, once open,
\* stays open: what the ticker does after a close has no part in the loop.
FairTick ==
    /\ delivered < MaxFairTicks
    /\ \E tk \in TickSet : on_ticks(<<tk>>)

NextFair ==
    \/ Advance
    \/ Startup
    \/ StartupFail
    \/ on_connect
    \/ FairTick
    \/ EngineStep
    \/ Wake

SpecFair ==
    /\ Init
    /\ [][NextFair]_vars
    /\ WF_vars(EngineStep) /\ WF_vars(Wake) /\ WF_vars(Advance)

InCycle == pc \in {"row", "call", "iter", "ins_vol", "ins_snap"}

\* C11: an error raised inside a ranking cycle does not end the loop: every
\* cycle, whether it completes or raises, is followed by the sleep, and
\* every sleep that ends within the modelled time by the top of the loop,
\* where the next cycle starts.
C11_LoopSurvivesErrors ==
    /\ InCycle ~> (pc = "sleep")
    /\ (pc = "sleep" /\ sleepUntil <= MaxTime) ~> (pc = "top")

\* A cycle has raised while iterating a window, the loop is in its sleep
\* and the sleep has elapsed.
C11_Witness ==
    /\ engineError = "RuntimeError"
    /\ pc = "sleep"
    /\ clock >= sleepUntil
    /\ cycles < MaxCycles

\* C12: no window ever holds more than maxlen samples, and an append to a
\* full window drops the oldest sample and keeps the others in order.
C12_CeilingHolds ==
    [][\A t \in Tokens :
          /\ Len(volume_memory'[t]) <= maxlen
          /\ (Len(volume_memory[t]) = maxlen /\ dq_state'[t] = dq_state[t] + 1)
                => volume_memory'[t] =
                      Append(Tail(volume_memory[t]),
                             volume_memory'[t][Len(volume_memory'[t])])]_vars

\* A window that is full and has received more samples than it can hold.
C12_Witness ==
    \E t \in Tokens : Len(volume_memory[t]) = maxlen /\ dq_state[t] > maxlen

\* ------------------------------------------------------------------------
\* The store of one token over a long stretch of time: ticks of the token
\* arrive through on_ticks with pauses between them, and calculate_volume
\* is called directly.
\* ------------------------------------------------------------------------
\* The shortest retention horizon that covers every configured window.
Horizon == Windows[Len(Windows)]

StoreSteps == {Horizon + 1}

InitStore ==
    /\ clock = 0
    /\ gate = TRUE
    /\ app = "running"
    /\ loads = 1
    /\ tasks = 1
    /\ instrument_df = [loaded |-> TRUE, rows |-> load_instruments(24400)]
    /\ tracked_tokens = TokensOf(load_instruments(24400))
    /\ latest_ticks = [t \in Tokens |-> NoTick]
    /\ volume_memory = [t \in Tokens |-> <<>>]
    /\ dq_state = [t \in Tokens |-> 0]
    /\ delivered = 0
    /\ wsStarted = TRUE
    /\ conn = "open"
    /\ subscribed = Range(tracked_tokens)
    /\ mode_full = Range(tracked_tokens)
    /\ connects = 1
    /\ closes = 0
    /\ pc = "sleep"
    /\ cycles = 0
    /\ now_time = 0
    /\ idx = 0
    /\ tick = NoTick
    /\ vols = <<>>
    /\ cvNow = 0
    /\ it = NoIter
    /\ volume_rows = <<>>
    /\ snapshot_rows = <<>>
    /\ volume_history = <<>>
    /\ option_snapshots = <<>>
    /\ sleepUntil = clock + UPDATE_INTERVAL
    /\ engineError = "none"
    /\ query = NoQuery

\* One tick of the token, carrying a cumulative volume.
StoreTick ==
    /\ delivered < MaxStoreTicks
    /\ \E v \in CVVolumes :
          on_ticks(<<[instrument_token |-> CVToken, volume |-> v]>>)

StoreAdvance ==
    /\ \E d \in StoreSteps :
          /\ clock + d <= MaxStoreTime
          /\ clock' = clock + d
    /\ UNCHANGED <<gate, startVars, storeVars, feedVars, loopVars, cvVars,
                   sinkVars, engineVars, query>>

NextStore ==
    \/ StoreTick
    \/ StoreAdvance
    \/ \E seconds \in Range(Windows) : CVQuery(seconds)

SpecStore == InitStore /\ [][NextStore]_vars

\* C13: every append evicts the samples older than the retention horizon:
\* no stored sample of a window is more than Horizon older than the newest
\* sample of the window, which carries the time of the last append.
C13_HorizonEviction ==
    \A t \in Tokens :
       LET dq == volume_memory[t] IN
       \A i \in 1..Len(dq) : dq[i][1] >= dq[Len(dq)][1] - Horizon

\* C14: calculate_volume never returns a negative value, and returns 0 when
\* the cumulative volume has gone down over the window (a counter reset:
\* the last sample inside the window is below the first one).
C14_NeverNegative ==
    query.seconds # 0 =>
        LET W == InWindow(volume_memory[CVToken], clock, query.seconds) IN
        /\ query.result >= 0
        /\ (Len(W) >= 2 /\ W[Len(W)][2] < W[1][2]) => query.result = 0

\* C15: when the loop over the tracked instruments comes to one that has no
\* cached tick, it moves on to the next instrument: nothing is raised and
\* no row is produced for it.
C15_UntickedSkipped ==
    [][(/\ pc = "row"
        /\ idx \in 1..Len(instrument_df.rows)
        /\ latest_ticks[CurToken] = NoTick
        /\ <<pc, idx, engineError>>' # <<pc, idx, engineError>>)
          => /\ pc' = "row"
             /\ idx' = idx + 1
             /\ engineError' = "none"
             /\ volume_rows' = volume_rows
             /\ snapshot_rows' = snapshot_rows]_vars

\* A cycle has scored a later instrument although the first tracked
\* instrument has never had a tick.
C15_Witness ==
    /\ Len(instrument_df.rows) >= 2
    /\ latest_ticks[instrument_df.rows[1].instrument_token] = NoTick
    /\ snapshot_rows # <<>>

\* The ticks of one token in a batch, in batch order.
TicksOf(ticks, t) == SelectSeq(ticks, LAMBDA tk : tk.instrument_token = t)

LastN(s, n) == IF Len(s) <= n THEN s ELSE SubSeq(s, Len(s) - n + 1, Len(s))

\* C16: a step that delivers ticks is the processing of some batch after
\* which, for every token, the tick cache holds the last tick of the token
\* in the batch (the earlier entry is overwritten; tokens outside the batch
\* keep theirs), and the token's window has received one sample per tick of
\* the token, stamped with the time of the call and carrying the tick's
\* cumulative volume, 0 when the tick has none.
C16_BatchStored ==
    [][delivered' # delivered =>
         \E ticks \in BatchSet :
            /\ Len(ticks) = delivered' - delivered
            /\ \A t \in Tokens :
                  LET mine == TicksOf(ticks, t)
                      samples == [i \in 1..Len(mine) |->
                                    <<clock, IF "volume" \in DOMAIN mine[i]
                                                THEN mine[i].volume ELSE 0>>]
                  IN
                  /\ latest_ticks'[t] = IF mine = <<>> THEN latest_ticks[t]
                                        ELSE mine[Len(mine)]
                  /\ volume_memory'[t] = LastN(volume_memory[t] \o samples, maxlen)]_vars

\* A tick without a volume field is the cached tick of its token and the
\* newest sample of the token's window carries volume 0.
C16_Witness ==
    \E t \in Tokens :
       /\ latest_ticks[t] # NoTick
       /\ "volume" \notin DOMAIN latest_ticks[t]
       /\ volume_memory[t] # <<>>
       /\ volume_memory[t][Len(volume_memory[t])] = <<clock, 0>>
       /\ dq_state[t] >= 2

\* C17: the gate is read at the top of every cycle, and a cycle that finds
\* it closed computes nothing, writes nothing to either table and goes to a
\* sleep that is longer than the UPDATE_INTERVAL slept after a cycle that
\* found it open.
C17_ClosedCycleSleepsLonger ==
    [][(pc = "top" /\ pc' # "top" /\ ~gate')
          => /\ pc' = "sleep"
             /\ volume_rows' = <<>> /\ snapshot_rows' = <<>>
             /\ volume_history' = <<>> /\ option_snapshots' = <<>>
             /\ sleepUntil' - clock' > UPDATE_INTERVAL]_vars

\* C18: there is one ranking task, and its cycles do not overlap: a cycle
\* starts only at the top of the loop, the top is reached only from startup
\* or from a sleep that has elapsed, and the sleep is reached only when the
\* cycle before it found the gate closed, finished its inserts or raised.
C18_OneCycleAtATime ==
    [][/\ tasks' <= 1
       /\ (cycles' # cycles) => pc = "top"
       /\ (pc' = "top" /\ pc # "top")
             => (pc = "off" \/ (pc = "sleep" /\ clock >= sleepUntil))
       /\ (pc' = "sleep" /\ pc # "sleep")
             => (pc = "top" \/ pc = "ins_snap" \/ engineError' # "none")]_vars

\* The second cycle of the one ranking task is at work on a row.
C18_Witness == tasks = 1 /\ cycles = 2 /\ pc = "call"

\* C19: the feed connection and the ranking loop are started only over a
\* tracked universe that was resolved and is not empty: when startup could
\* not resolve one, neither is started and no cycle ever runs.
C19_NoEmptyUniverse ==
    (wsStarted \/ pc # "off" \/ cycles > 0) => tracked_tokens # <<>>

\* ------------------------------------------------------------------------
\* One row of a ranking cycle over a long stretch of time: the loop has
\* appended the volume row of the first instrument and makes the five
\* calculate_volume calls, while ticks of the token arrive with cumulative
\* volumes that never go down and the clock advances by any amount between
\* two steps.
\* ------------------------------------------------------------------------
\* The least difference between two consecutive window lengths.
MinWindowGap == Windows[2] - Windows[1]

\* A pause that the least difference covers, and one that it does not.
RowSteps == {MinWindowGap, MinWindowGap + 5}

\* Windows with at least one sample whose volumes do not decrease.
RowDeques ==
    {dq \in CVDeques :
        /\ Len(dq) \in 1..maxlen
        /\ \A i \in 1..(Len(dq) - 1) : dq[i][2] <= dq[i + 1][2]}

InitRow ==
    /\ clock \in CVClocks
    /\ gate = TRUE
    /\ app = "running"
    /\ loads = 1
    /\ tasks = 1
    /\ instrument_df = [loaded |-> TRUE, rows |-> load_instruments(24400)]
    /\ tracked_tokens = TokensOf(load_instruments(24400))
    /\ \E dq \in RowDeques :
          LET last == [instrument_token |-> CVToken, volume |-> dq[Len(dq)][2]] IN
          /\ volume_memory = [t \in Tokens |-> IF t = CVToken THEN dq ELSE <<>>]
          /\ dq_state = [t \in Tokens |-> IF t = CVToken THEN Len(dq) ELSE 0]
          /\ latest_ticks = [t \in Tokens |-> IF t = CVToken THEN last ELSE NoTick]
          /\ delivered = Len(dq)
          /\ tick = last
          /\ volume_rows = <<[token |-> CVToken, volume |-> last.volume,
                              created_at |-> clock]>>
    /\ wsStarted = TRUE
    /\ conn = "open"
    /\ subscribed = Range(tracked_tokens)
    /\ mode_full = Range(tracked_tokens)
    /\ connects = 1
    /\ closes = 0
    /\ pc = "call"
    /\ cycles = 1
    /\ now_time = clock
    /\ idx = 1
    /\ vols = <<>>
    /\ cvNow = 0
    /\ it = NoIter
    /\ snapshot_rows = <<>>
    /\ volume_history = <<>>
    /\ option_snapshots = <<>>
    /\ sleepUntil = 0
    /\ engineError = "none"
    /\ query = NoQuery

\* One tick of the token whose cumulative volume is not below the last one.
RowTick ==
    /\ delivered < MaxRowTicks
    /\ \E v \in CVVolumes :
          /\ v >= volume_memory[CVToken][Len(volume_memory[CVToken])][2]
          /\ on_ticks(<<[instrument_token |-> CVToken, volume |-> v]>>)

RowAdvance ==
    /\ \E d \in RowSteps :
          /\ clock + d <= MaxRowTime
          /\ clock' = clock + d
    /\ UNCHANGED <<gate, startVars, storeVars, feedVars, loopVars, cvVars,
                   sinkVars, engineVars, query>>

NextRow ==
    \/ RowTick
    \/ RowAdvance
    \/ CVCall
    \/ CVIter

SpecRow == InitRow /\ [][NextRow]_vars

Monotone(v) == \A i \in 1..(Len(v) - 1) : v[i] <= v[i + 1]

\* C20: in every row a cycle produces, the five window metrics do not
\* decrease with the window length, vol_10s <= vol_30s <= vol_1m <= vol_3m
\* <= vol_5m, when the volumes of the token's samples never go down.
C20_MonotoneInWindowLength ==
    \A k \in 1..Len(snapshot_rows) : Monotone(snapshot_rows[k].vols)

\* C20, amended: a row whose fifth calculate_volume call reads the clock no
\* more than MinWindowGap after the start of its cycle has window metrics
\* that do not decrease with the window length, when the volumes of the
\* token's samples never go down; appends and evictions between the calls
\* do not break it.
C20_MonotoneWithinGap ==
    [][(pc = "iter" /\ pc' = "row" /\ cvNow - now_time <= MinWindowGap)
          => Monotone(snapshot_rows'[Len(snapshot_rows')].vols)]_vars

\* A row was produced within MinWindowGap of the start of its cycle over a
\* window that evicted a sample while the row was computed.
C20_Witness ==
    /\ snapshot_rows # <<>>
    /\ clock - now_time <= MinWindowGap
    /\ dq_state[CVToken] > maxlen
    /\ snapshot_rows[1].vols[1] < snapshot_rows[1].vols[5]

====
